---- MODULE Spec2Model ----
(***************************************************************************)
(* Model of the matching and recommendation engine of                      *)
(* src/backend/ai_matching_service.py (class AIMatchingService) and of the *)
(* storage rows it reads and appends.                                      *)
(*                                                                         *)
(* A text is a string; Chars gives its characters, so that str.lower(),    *)
(* str.split() and the substring test `in` are computed as Python computes *)
(* them.  A TEXT column that holds an encoded list is a record [k |-> ...] *)
(* saying what json.loads makes of the stored text.                        *)
(*                                                                         *)
(* The operations are atomic steps, except in SpecConcurrent, where        *)
(* in_flight holds the calls of update_interaction_feedback that have      *)
(* started, each at its own statement.                                     *)
(***************************************************************************)
EXTENDS Integers, Sequences, FiniteSets, TLC

VARIABLES users, interaction_history, ai_recommendations, now, last, in_flight

vars == <<users, interaction_history, ai_recommendations, now, last, in_flight>>

(***************************************************************************)
(* Bounds of the model.                                                    *)
(***************************************************************************)
MaxHistory == 3

MaxRecommendations == 4

MaxLimit == 2

(***************************************************************************)
(* Text: the characters of the texts of the model, str.lower(),            *)
(* str.split(), `x in s`.                                                  *)
(***************************************************************************)
Spelling ==
    ("" :> <<>>) @@
    ("digitalization" :> <<"d","i","g","i","t","a","l","i","z","a","t","i","o","n">>) @@
    ("port_management" :> <<"p","o","r","t","_","m","a","n","a","g","e","m","e","n","t">>) @@
    ("green_energy" :> <<"g","r","e","e","n","_","e","n","e","r","g","y">>) @@
    ("maritime_tech" :> <<"m","a","r","i","t","i","m","e","_","t","e","c","h">>) @@
    ("port_equipment" :> <<"p","o","r","t","_","e","q","u","i","p","m","e","n","t">>) @@
    ("regulations" :> <<"r","e","g","u","l","a","t","i","o","n","s">>) @@
    ("logistics" :> <<"l","o","g","i","s","t","i","c","s">>) @@
    ("IoT" :> <<"I","o","T">>) @@
    ("Port IA" :> <<"P","o","r","t"," ","I","A">>) @@
    ("ia iot" :> <<"i","a"," ","i","o","t">>) @@
    ("IoT hub" :> <<"I","o","T"," ","h","u","b">>) @@
    ("IA port" :> <<"I","A"," ","p","o","r","t">>) @@
    ("media iot" :> <<"m","e","d","i","a"," ","i","o","t">>) @@
    ("Port" :> <<"P","o","r","t">>) @@
    ("Nice" :> <<"N","i","c","e">>) @@
    ("Paris" :> <<"P","a","r","i","s">>) @@
    ("SME Group" :> <<"S","M","E"," ","G","r","o","u","p">>) @@
    ("Big Enterprise Co" :> <<"B","i","g"," ","E","n","t","e","r","p","r","i","s","e"," ","C","o">>) @@
    ("Startup Inc" :> <<"S","t","a","r","t","u","p"," ","I","n","c">>) @@
    ("Immédiat" :> <<"I","m","m","é","d","i","a","t">>) @@
    ("sur rdv" :> <<"s","u","r"," ","r","d","v">>)

Chars(s) == Spelling[s]

UpperLetters == <<"A","B","C","D","E","F","G","H","I","J","K","L","M",
                  "N","O","P","Q","R","S","T","U","V","W","X","Y","Z","É">>

LowerLetters == <<"a","b","c","d","e","f","g","h","i","j","k","l","m",
                  "n","o","p","q","r","s","t","u","v","w","x","y","z","é">>

LowerChar(c) ==
    IF \E i \in 1..Len(UpperLetters) : UpperLetters[i] = c
    THEN LowerLetters[CHOOSE i \in 1..Len(UpperLetters) : UpperLetters[i] = c]
    ELSE c

\* s.lower() of every text of the model, as characters
Lowered == [s \in DOMAIN Spelling |-> [i \in 1..Len(Chars(s)) |-> LowerChar(Chars(s)[i])]]

Lower(s) == Lowered[s]

\* s in t, on characters
IsSubstring(s, t) ==
    \E i \in 0..(Len(t) - Len(s)) : SubSeq(t, i + 1, i + Len(s)) = s

RECURSIVE SplitFrom(_, _, _)
SplitFrom(s, i, cur) ==
    IF i > Len(s)
    THEN IF cur = <<>> THEN <<>> ELSE <<cur>>
    ELSE IF s[i] = " "
         THEN IF cur = <<>>
              THEN SplitFrom(s, i + 1, <<>>)
              ELSE <<cur>> \o SplitFrom(s, i + 1, <<>>)
         ELSE SplitFrom(s, i + 1, Append(cur, s[i]))

\* s.split(), on characters
Split(s) == SplitFrom(s, 1, <<>>)

Range(f) == {f[i] : i \in DOMAIN f}

Min(a, b) == IF a < b THEN a ELSE b

Max(a, b) == IF a > b THEN a ELSE b

(***************************************************************************)
(* Stored column values.  A nullable TEXT column is NULL or a text; a      *)
(* column holding an encoded list is NULL, the encoding of a list of       *)
(* texts, the encoding of a number (valid JSON, not a list) or text that   *)
(* is not JSON at all.                                                     *)
(***************************************************************************)
Null == [k |-> "null"]

Text(s) == [k |-> "text", v |-> s]

JsonList(l) == [k |-> "list", v |-> l]

JsonNumber == [k |-> "num"]

NotJson == [k |-> "bad"]

\* `x` as a Python condition: None and empty text are false.
Truthy(x) == IF x.k = "null" THEN FALSE
             ELSE IF x.k = "text" THEN x.v # ""
             ELSE TRUE

\* json.loads(x) if x else []  -- the decoded value, or a raise.
LoadsRaises(x) == x.k = "bad"

Loads(x) == IF x.k = "list" THEN [t |-> "list", v |-> x.v]
            ELSE IF x.k = "num" THEN [t |-> "int"]
            ELSE [t |-> "list", v |-> <<>>]

\* a decoded value as a Python condition: [] is false, a non-zero number true.
Nonempty(d) == IF d.t = "list" THEN d.v # <<>> ELSE TRUE

\* iterating or set() over a decoded value raises TypeError on a number.
Iterable(d) == d.t = "list"

Items(d) == IF d.t = "list" THEN d.v ELSE <<>>

(***************************************************************************)
(* _simulate_compatibility_model: the six factors in the order the code    *)
(* evaluates them.  Each factor either raises or contributes points.       *)
(***************************************************************************)
Raised == [raised |-> TRUE]

Value(n) == [raised |-> FALSE, v |-> n]

\* `if a and b: common = set(a) & set(b)` on two decoded columns.
OverlapRaises(a, b) ==
    \/ LoadsRaises(a)
    \/ LoadsRaises(b)
    \/ /\ Nonempty(Loads(a)) /\ Nonempty(Loads(b))
       /\ ~(Iterable(Loads(a)) /\ Iterable(Loads(b)))

Overlap(a, b) ==
    IF Nonempty(Loads(a)) /\ Nonempty(Loads(b))
    THEN Range(Items(Loads(a))) \cap Range(Items(Loads(b)))
    ELSE {}

\* any(word in offer.lower() for word in need.lower().split())
TokenMatch(need, offer) ==
    \E w \in Range(Split(Lower(need))) : IsSubstring(w, Lower(offer))

SectorPoints(profile1, profile2) ==
    Min(25, Cardinality(Overlap(profile1.sectors_activity, profile2.sectors_activity)) * 8)

ComplementarityRaises(profile1, profile2) ==
    \/ LoadsRaises(profile1.participation_objectives)
    \/ LoadsRaises(profile1.looking_for)
    \/ LoadsRaises(profile2.participation_objectives)
    \/ ~Iterable(Loads(profile1.participation_objectives))
    \/ /\ Items(Loads(profile1.participation_objectives)) # <<>>
       /\ \/ LoadsRaises(profile2.products_services)
          \/ ~Iterable(Loads(profile2.products_services))

\* complementarity += 1 for every (objective, service) pair that matches
Complementarity(profile1, profile2) ==
    LET obj1 == Items(Loads(profile1.participation_objectives))
        services == Items(Loads(profile2.products_services))
    IN  Cardinality({ij \in (DOMAIN obj1) \X (DOMAIN services) :
                        TokenMatch(obj1[ij[1]], services[ij[2]])})

ComplementarityPoints(profile1, profile2) ==
    Min(20, Complementarity(profile1, profile2) * 4)

ThemePoints(profile1, profile2) ==
    Min(20, Cardinality(Overlap(profile1.interest_themes, profile2.interest_themes)) * 5)

\* geo_match = set(geo1) & set(geo2); the elif tests list membership
\* (g1 in geo2, g2 in geo1) of whole entries.
GeographyPoints(profile1, profile2) ==
    LET a == profile1.geographic_location
        b == profile2.geographic_location
        geo1 == Items(Loads(a))
        geo2 == Items(Loads(b))
    IN  IF ~(Nonempty(Loads(a)) /\ Nonempty(Loads(b))) THEN 0
        ELSE IF Overlap(a, b) # {} THEN 15
        ELSE IF \E i \in DOMAIN geo1 : \E j \in DOMAIN geo2 :
                    geo1[i] \in Range(geo2) \/ geo2[j] \in Range(geo1)
             THEN 8
             ELSE 0

Startup == <<"s","t","a","r","t","u","p">>

Enterprise == <<"e","n","t","e","r","p","r","i","s","e">>

Sme == <<"s","m","e">>

\* size_compatibility, in the dict's insertion order
SizeCompatibility == << <<Startup, Enterprise, 8>>, <<Sme, Enterprise, 10>>,
                        <<Sme, Sme, 10>>, <<Startup, Startup, 7>> >>

SizePairMatches(entry, size1, size2) ==
    \/ IsSubstring(entry[1], Lower(size1)) /\ IsSubstring(entry[2], Lower(size2))
    \/ IsSubstring(entry[2], Lower(size1)) /\ IsSubstring(entry[1], Lower(size2))

\* first matching entry wins (break)
SizePoints(profile1, profile2) ==
    LET size1 == profile1.company_size
        size2 == profile2.company_size
    IN  IF ~(Truthy(size1) /\ Truthy(size2)) THEN 0
        ELSE LET hits == {i \in DOMAIN SizeCompatibility :
                             SizePairMatches(SizeCompatibility[i], size1.v, size2.v)}
             IN  IF hits = {} THEN 0
                 ELSE SizeCompatibility[CHOOSE i \in hits : \A j \in hits : i <= j][3]

Immediat == <<"i","m","m","é","d","i","a","t">>

HasImmediat(avail) == IsSubstring(Immediat, Lower(avail.v))

\* "immédiat" in avail1.lower() or "immédiat" in avail2.lower():
\* None has no lower(); the second operand is evaluated only if the first is false.
AvailabilityRaises(profile1, profile2) ==
    LET avail1 == profile1.meeting_availability
        avail2 == profile2.meeting_availability
    IN  \/ avail1.k = "null"
        \/ ~HasImmediat(avail1) /\ avail2.k = "null"

AvailabilityPoints(profile1, profile2) ==
    LET avail1 == profile1.meeting_availability
        avail2 == profile2.meeting_availability
    IN  IF HasImmediat(avail1) \/ HasImmediat(avail2) THEN 10
        ELSE IF Truthy(avail1) /\ Truthy(avail2) THEN 5
        ELSE 0

MaxScore == 100

ScoreRaises(profile1, profile2) ==
    \/ OverlapRaises(profile1.sectors_activity, profile2.sectors_activity)
    \/ ComplementarityRaises(profile1, profile2)
    \/ OverlapRaises(profile1.interest_themes, profile2.interest_themes)
    \/ OverlapRaises(profile1.geographic_location, profile2.geographic_location)
    \/ AvailabilityRaises(profile1, profile2)

ScoreSum(profile1, profile2) ==
    SectorPoints(profile1, profile2) + ComplementarityPoints(profile1, profile2)
    + ThemePoints(profile1, profile2) + GeographyPoints(profile1, profile2)
    + SizePoints(profile1, profile2) + AvailabilityPoints(profile1, profile2)

simulate_compatibility_model(profile1, profile2) ==
    IF ScoreRaises(profile1, profile2) THEN Raised
    ELSE Value(Min(MaxScore, ScoreSum(profile1, profile2)))

(***************************************************************************)
(* _simulate_collaborative_filtering: the cohort query over                *)
(* interaction_history and the per-candidate boost.  A boost is held in    *)
(* millionths (0.5 is 500000); ln is tabulated in millionths, rounded      *)
(* down, which decides every comparison and floor below as the floats do.  *)
(***************************************************************************)
Micro == 1000000

LnMicro == <<0, 693147, 1098612, 1386294, 1609437, 1791759, 1945910, 2079441, 2197224>>

RECURSIVE SumOver(_, _)
SumOver(f, S) ==
    IF S = {} THEN 0
    ELSE LET x == CHOOSE y \in S : TRUE IN f[x] + SumOver(f, S \ {x})

\* SELECT target_user_id FROM interaction_history
\*  WHERE user_id = ? AND success_indicator >= 1
SuccessfulTargets(history, user_id) ==
    {history[i].target_user_id : i \in {j \in DOMAIN history :
        history[j].user_id = user_id /\ history[j].success_indicator >= 1}}

\* SELECT DISTINCT ih2.user_id ... WHERE ih2.target_user_id IN (...)
Cohort(history, user_id) ==
    {history[i].user_id : i \in {j \in DOMAIN history :
        history[j].target_user_id \in SuccessfulTargets(history, user_id)}}

\* GroupRows without `AND user_id != ?`
GroupRows_WithRequester(history, user_id, target_id) ==
    {i \in DOMAIN history :
        /\ history[i].user_id \in Cohort(history, user_id)
        /\ history[i].target_user_id = target_id}

\* the rows of one GROUP BY target_user_id group
GroupRows(history, user_id, target_id) ==
    {i \in DOMAIN history :
        /\ history[i].user_id \in Cohort(history, user_id)
        /\ history[i].user_id # user_id
        /\ history[i].target_user_id = target_id}

\* HAVING COUNT(*) >= 2
HasGroup(history, user_id, target_id) ==
    Cardinality(GroupRows(history, user_id, target_id)) >= 2

\* floor(k * ln / d) without leaving 32 bits: ln = hi * 1000 + lo
MulDivLn(k, ln, d) ==
    LET hi == ln \div 1000
        lo == ln % 1000
    IN  ((k * hi) \div d) * 1000 + ((((k * hi) % d) * 1000 + k * lo) \div d)

\* (avg_compatibility / 100) * (1 + success_rate) * math.log(1 + interaction_count)
\* with `interaction[1] or 70` and `interaction[3] or 0.5`
CollaborativeScore(history, user_id, target_id) ==
    LET rows == GroupRows(history, user_id, target_id)
        count == Cardinality(rows)
        scoreSum == SumOver([i \in DOMAIN history |-> history[i].compatibility_score], rows)
        successSum == SumOver([i \in DOMAIN history |-> history[i].success_indicator], rows)
        avgNum == IF scoreSum = 0 THEN 70 ELSE scoreSum
        avgDen == IF scoreSum = 0 THEN 1 ELSE count
        rateNum == IF successSum = 0 THEN 1 ELSE successSum
        rateDen == IF successSum = 0 THEN 2 ELSE count
    IN  MulDivLn(avgNum * (rateDen + rateNum), LnMicro[1 + count], 100 * avgDen * rateDen)

DefaultBoost == 500000

\* base_score = 0.5; base_score = max(base_score, collaborative_score)
CollaborativeBoost(history, user_id, target_id) ==
    IF HasGroup(history, user_id, target_id)
    THEN Max(DefaultBoost, CollaborativeScore(history, user_id, target_id))
    ELSE DefaultBoost

simulate_collaborative_filtering(history, user_id, target_users) ==
    [t \in Range(target_users) |-> CollaborativeBoost(history, user_id, t)]

(***************************************************************************)
(* find_matches                                                            *)
(***************************************************************************)
RECURSIVE SortedIds(_)
SortedIds(S) ==
    IF S = {} THEN <<>>
    ELSE LET m == CHOOSE x \in S : \A y \in S : x <= y
         IN  <<m>> \o SortedIds(S \ {m})

Take(seq, n) == SubSeq(seq, 1, Min(Len(seq), n))

\* Candidates without LIMIT
Candidates_Unlimited(request) ==
    SortedIds({id \in DOMAIN users :
        /\ id # request.user_id
        /\ users[id].status = "validated"
        /\ "all" \in request.match_types \/ users[id].user_type \in request.match_types})

\* WHERE u.id != ? AND u.status = 'validated' [AND u.user_type IN (...)]
\* ORDER BY u.id LIMIT limit * 2
Candidates(request) ==
    Take(SortedIds({id \in DOMAIN users :
            /\ id # request.user_id
            /\ users[id].status = "validated"
            /\ "all" \in request.match_types \/ users[id].user_type \in request.match_types}),
         request.limit * 2)

(***************************************************************************)
(* _generate_ai_explanation, _assess_business_potential and                *)
(* _generate_ai_recommendation.  The matching factors are a record of the  *)
(* common topics, the complementary needs ("need <- product" entries) and  *)
(* the sector alignment, a ratio kept as numerator and denominator.  A     *)
(* text the code assembles is kept as its parts: the opening phrase and    *)
(* the clauses it joins with ", ".                                         *)
(***************************************************************************)
Ratio(num, den) == [num |-> num, den |-> den]

\* ratio > p / q
Exceeds(ratio, p, q) == ratio.num * q > p * ratio.den

\* the opening phrase chosen by the score band
Tone(compatibility_score) ==
    IF compatibility_score >= 90 THEN "Correspondance exceptionnelle"
    ELSE IF compatibility_score >= 80 THEN "Très bonne compatibilité"
    ELSE IF compatibility_score >= 70 THEN "Bonne compatibilité"
    ELSE "Compatibilité modérée"

\* ExplanationClauses cut to its first two entries
ExplanationClauses_FirstTwo(factors) ==
    Take((IF factors.common_interests # <<>>
          THEN <<[clause |-> "common_interests", topics |-> Take(factors.common_interests, 2)]>>
          ELSE <<>>)
         \o (IF factors.complementary_needs # <<>>
             THEN <<[clause |-> "complementary_needs", count |-> Len(factors.complementary_needs)]>>
             ELSE <<>>)
         \o (IF Exceeds(factors.sector_alignment, 1, 2)
             THEN <<[clause |-> "sector_alignment"]>> ELSE <<>>), 2)

\* explanations: one append per factor present, in this order
ExplanationClauses(factors) ==
    (IF factors.common_interests # <<>>
     THEN <<[clause |-> "common_interests", topics |-> Take(factors.common_interests, 2)]>>
     ELSE <<>>)
    \o (IF factors.complementary_needs # <<>>
        THEN <<[clause |-> "complementary_needs", count |-> Len(factors.complementary_needs)]>>
        ELSE <<>>)
    \o (IF Exceeds(factors.sector_alignment, 1, 2)
        THEN <<[clause |-> "sector_alignment"]>> ELSE <<>>)

\* f"{tone}: {', '.join(explanations)}", or the tone with the generic phrase
Explanation(factors, compatibility_score) ==
    [tone |-> Tone(compatibility_score),
     clauses |-> ExplanationClauses(factors),
     generic |-> ExplanationClauses(factors) = <<>>]

assess_business_potential(compatibility_score, factors) ==
    IF compatibility_score >= 90 /\ Len(factors.complementary_needs) >= 2 THEN "Très élevé"
    ELSE IF /\ compatibility_score >= 80
            /\ \/ Exceeds(factors.sector_alignment, 7, 10)
               \/ Len(factors.common_interests) >= 2
         THEN "Élevé"
    ELSE IF compatibility_score >= 70 THEN "Moyen"
    ELSE "Faible"

\* the recommendations joined with " • "
Recommendation(compatibility_score, factors) ==
    LET recommendations ==
            (IF compatibility_score >= 85 THEN <<"Contact prioritaire recommandé">> ELSE <<>>)
            \o (IF factors.complementary_needs # <<>>
                THEN <<"Proposez une collaboration directe">> ELSE <<>>)
            \o (IF Len(factors.common_interests) >= 2
                THEN <<"Excellent potentiel de partenariat">> ELSE <<>>)
    IN  IF recommendations = <<>>
        THEN <<"Explorez les opportunités de collaboration">>
        ELSE recommendations

(***************************************************************************)
(* _analyze_matching_factors.                                              *)
(***************************************************************************)
\* json.loads of sectors, looking_for and products; set() and len() of the
\* sectors, iteration of the needs and, when there is a need, of the products
AnalyzeRaises(profile1, profile2) ==
    \/ OverlapRaises(profile1.sectors_activity, profile2.sectors_activity)
    \/ LoadsRaises(profile1.looking_for)
    \/ LoadsRaises(profile2.products_services)
    \/ ~Iterable(Loads(profile1.looking_for))
    \/ /\ Items(Loads(profile1.looking_for)) # <<>>
       /\ ~Iterable(Loads(profile2.products_services))

\* min(1.0, overlap / max(len(sectors1), len(sectors2))), 0 when a list is empty
SectorAlignment(profile1, profile2) ==
    LET sectors1 == Items(Loads(profile1.sectors_activity))
        sectors2 == Items(Loads(profile2.sectors_activity))
        overlap == Cardinality(Overlap(profile1.sectors_activity, profile2.sectors_activity))
    IN  IF sectors1 # <<>> /\ sectors2 # <<>>
        THEN Ratio(overlap, Max(Len(sectors1), Len(sectors2)))
        ELSE Ratio(0, 1)

\* for need in looking_for1: for product in products2: complementary.append(...)
RECURSIVE ComplementaryFrom(_, _, _, _)
ComplementaryFrom(needs, products, i, j) ==
    IF i > Len(needs) THEN <<>>
    ELSE IF j > Len(products) THEN ComplementaryFrom(needs, products, i + 1, 1)
    ELSE (IF TokenMatch(needs[i], products[j])
          THEN <<[need |-> needs[i], product |-> products[j]]>> ELSE <<>>)
         \o ComplementaryFrom(needs, products, i, j + 1)

ComplementaryNeeds(profile1, profile2) ==
    ComplementaryFrom(Items(Loads(profile1.looking_for)),
                      Items(Loads(profile2.products_services)), 1, 1)

\* list(set(topics1) & set(topics2)), for lists with at most one common topic
CommonInterests(topics1, topics2) ==
    LET common == Range(topics1) \cap Range(topics2)
    IN  IF common = {} THEN <<>> ELSE <<CHOOSE topic \in common : TRUE>>

analyze_matching_factors(profile1, profile2, topics1, topics2) ==
    IF AnalyzeRaises(profile1, profile2) THEN Raised
    ELSE Value([common_interests |-> CommonInterests(topics1, topics2),
                complementary_needs |-> ComplementaryNeeds(profile1, profile2),
                sector_alignment |-> SectorAlignment(profile1, profile2)])

\* user_profile is a sqlite3.Row, which has no method get: the first
\* statement of the bundle, user_profile.get('description', ''), raises
\* AttributeError.
RowHasGet == FALSE

BuildRaises(user_profile, candidate) ==
    IF ~RowHasGet THEN TRUE ELSE AnalyzeRaises(user_profile, candidate)

\* the MatchResult appended for a candidate that passed the threshold: the
\* three texts are computed here, from the scorer's output.  The users table
\* has no description, so both analyses are of '' and have no topics.  The
\* conversation topics, drawn at random, are the steps of SpecTopics.
BuildMatch(user_profile, candidate, candidate_id, compatibility_score) ==
    LET matching_factors == analyze_matching_factors(user_profile, candidate, <<>>, <<>>).v
    IN  [matched_user_id |-> candidate_id,
         compatibility_score |-> compatibility_score,
         explanation |-> Explanation(matching_factors, compatibility_score),
         mutual_interests |-> matching_factors.common_interests,
         business_potential |->
             assess_business_potential(compatibility_score, matching_factors),
         matching_factors |-> matching_factors,
         ai_recommendation |-> Recommendation(compatibility_score, matching_factors)]

Qualifies(compatibility_score, request) ==
    compatibility_score >= request.min_compatibility

\* for candidate in candidates: ... matches.append(match_result)
\* No statement of the loop is guarded: a raise leaves find_matches.
RECURSIVE MatchLoop(_, _, _, _)
MatchLoop(request, candidates, i, matches) ==
    IF i > Len(candidates) THEN Value(matches)
    ELSE LET id == candidates[i]
             score == simulate_compatibility_model(users[request.user_id], users[id])
         IN  IF score.raised THEN Raised
             ELSE IF Qualifies(score.v, request)
                  THEN IF BuildRaises(users[request.user_id], users[id]) THEN Raised
                       ELSE MatchLoop(request, candidates, i + 1,
                                      Append(matches,
                                          BuildMatch(users[request.user_id], users[id],
                                                     id, score.v)))
                  ELSE MatchLoop(request, candidates, i + 1, matches)

\* min(100, int(score * (1 + collab_boost * 0.1)))
AdjustedScore(compatibility_score, collab_boost) ==
    Min(100, (compatibility_score * (10 * Micro + collab_boost)) \div (10 * Micro))

Adjust(matches, history, user_id) ==
    LET collaborative_scores ==
            simulate_collaborative_filtering(history, user_id,
                [i \in DOMAIN matches |-> matches[i].matched_user_id])
    IN  [i \in DOMAIN matches |->
            [matches[i] EXCEPT !.compatibility_score =
                AdjustedScore(@, collaborative_scores[matches[i].matched_user_id])]]

\* matches.sort(key=lambda x: x.compatibility_score, reverse=True): stable
RECURSIVE InsertDesc(_, _)
InsertDesc(sorted, m) ==
    IF sorted = <<>> THEN <<m>>
    ELSE IF Head(sorted).compatibility_score >= m.compatibility_score
         THEN <<Head(sorted)>> \o InsertDesc(Tail(sorted), m)
         ELSE <<m>> \o sorted

RECURSIVE SortDesc(_)
SortDesc(matches) ==
    IF matches = <<>> THEN <<>>
    ELSE InsertDesc(SortDesc(SubSeq(matches, 1, Len(matches) - 1)), matches[Len(matches)])

\* the candidates handed to the scorer, in order, until the loop ends or a
\* raise leaves it
RECURSIVE ScoredLoop(_, _, _)
ScoredLoop(request, candidates, i) ==
    IF i > Len(candidates) THEN <<>>
    ELSE LET id == candidates[i]
             score == simulate_compatibility_model(users[request.user_id], users[id])
         IN  IF score.raised THEN <<id>>
             ELSE IF Qualifies(score.v, request) /\ BuildRaises(users[request.user_id], users[id])
                  THEN <<id>>
                  ELSE <<id>> \o ScoredLoop(request, candidates, i + 1)

Scored(request) ==
    IF request.user_id \notin DOMAIN users THEN <<>>
    ELSE ScoredLoop(request, Candidates(request), 1)

\* the value find_matches returns, or the raise that leaves it
FindMatchesResult(request, history) ==
    IF request.user_id \notin DOMAIN users THEN Value(<<>>)
    ELSE LET looped == MatchLoop(request, Candidates(request), 1, <<>>)
         IN  IF looped.raised THEN Raised
             ELSE Value(Take(SortDesc(Adjust(looped.v, history, request.user_id)),
                             request.limit))

(***************************************************************************)
(* Rows of users LEFT JOIN user_profiles_detailed.  A user without a       *)
(* detailed profile has NULL in every detailed column.                     *)
(***************************************************************************)
RichA ==
    [user_type |-> "visitor", status |-> "validated", created_at |-> -30,
     sectors_activity |->
         JsonList(<<"digitalization", "logistics", "port_management", "green_energy">>),
     products_services |-> JsonList(<<"Port">>),
     participation_objectives |-> JsonList(<<"IoT", "Port IA", "ia iot">>),
     interest_themes |-> JsonList(<<"digitalization">>),
     looking_for |-> JsonList(<<"IoT">>),
     geographic_location |-> JsonList(<<"Nice">>),
     company_size |-> Text("SME Group"),
     meeting_availability |-> Text("Immédiat")]

RichB ==
    [user_type |-> "exhibitor", status |-> "validated", created_at |-> 0,
     sectors_activity |->
         JsonList(<<"green_energy", "port_management", "logistics", "digitalization">>),
     products_services |-> JsonList(<<"IoT hub", "IA port", "media iot">>),
     participation_objectives |-> JsonList(<<"IoT">>),
     interest_themes |-> JsonList(<<"digitalization", "regulations">>),
     looking_for |-> JsonList(<<"Port">>),
     geographic_location |-> JsonList(<<"Nice", "Paris">>),
     company_size |-> Text("Big Enterprise Co"),
     meeting_availability |-> Text("sur rdv")]

Plain ==
    [user_type |-> "exhibitor", status |-> "validated", created_at |-> -30,
     sectors_activity |-> JsonList(<<"digitalization">>),
     products_services |-> JsonList(<<>>),
     participation_objectives |-> JsonList(<<>>),
     interest_themes |-> JsonList(<<"maritime_tech">>),
     looking_for |-> JsonList(<<>>),
     geographic_location |-> JsonList(<<"Paris">>),
     company_size |-> Text("Startup Inc"),
     meeting_availability |-> Text("sur rdv")]

NoDetail ==
    [user_type |-> "visitor", status |-> "validated", created_at |-> -30,
     sectors_activity |-> Null, products_services |-> Null,
     participation_objectives |-> Null, interest_themes |-> Null,
     looking_for |-> Null, geographic_location |-> Null,
     company_size |-> Null, meeting_availability |-> Null]

Corrupt == [RichB EXCEPT !.sectors_activity = NotJson, !.created_at = -30]

Pending == [RichB EXCEPT !.status = "pending"]

UserIds == 1..3

\* an id no row of users has
UnknownId == Cardinality(UserIds) + 1

RowChoices == {RichA, RichB, Plain, NoDetail, Corrupt, Pending}

\* the contents of the users table
Databases == [UserIds -> RowChoices]

(***************************************************************************)
(* _simulate_trend_detection: the fixed catalog.  strength is held in      *)
(* hundredths.                                                             *)
(***************************************************************************)
simulate_trend_detection ==
    << [topic |-> "Intelligence Artificielle Portuaire", strength |-> 85,
        sectors |-> <<"digitalization", "port_management">>],
       [topic |-> "Énergies Renouvelables Offshore", strength |-> 78,
        sectors |-> <<"green_energy", "maritime_tech">>],
       [topic |-> "Automatisation Terminaux", strength |-> 72,
        sectors |-> <<"port_equipment", "digitalization">>],
       [topic |-> "Durabilité et Décarbonation", strength |-> 68,
        sectors |-> <<"green_energy", "regulations">>] >>

(***************************************************************************)
(* generate_proactive_recommendations                                      *)
(***************************************************************************)
TrendTtlDays == 7

NewMatchTtlDays == 3

RecentWindowDays == 7

NewMatchConfidence == 85

\* int(trend['strength'] * 100)
TrendConfidence(trend) == (trend.strength * 100) \div 100

\* TrendMatches with all() in the place of any()
TrendMatches_All(trend, user_interests) ==
    \A i \in DOMAIN user_interests : user_interests[i] \in Range(trend.sectors)

\* any(interest in trend['sectors'] for interest in user_interests)
TrendMatches(trend, user_interests) ==
    \E i \in DOMAIN user_interests : user_interests[i] \in Range(trend.sectors)

\* TrendRecommendation with the expiry of the new_match recommendation
TrendRecommendation_NewMatchTtl(user_id, trend, today) ==
    [user_id |-> user_id, recommendation_type |-> "trending_topic",
     title |-> <<"Tendance détectée", trend.topic>>,
     confidence_score |-> TrendConfidence(trend),
     expires_at |-> today + NewMatchTtlDays, is_read |-> 0]

TrendRecommendation(user_id, trend, today) ==
    [user_id |-> user_id, recommendation_type |-> "trending_topic",
     title |-> <<"Tendance détectée", trend.topic>>,
     confidence_score |-> TrendConfidence(trend),
     expires_at |-> today + TrendTtlDays, is_read |-> 0]

RECURSIVE TrendRecommendations(_, _, _, _)
TrendRecommendations(user_id, trends, user_interests, today) ==
    IF trends = <<>> THEN <<>>
    ELSE (IF TrendMatches(Head(trends), user_interests)
          THEN <<TrendRecommendation(user_id, Head(trends), today)>>
          ELSE <<>>)
         \o TrendRecommendations(user_id, Tail(trends), user_interests, today)

\* RecentMatches without the restriction to validated users
RecentMatches_AnyStatus(user_id, today) ==
    Cardinality({id \in DOMAIN users :
        /\ id # user_id
        /\ users[id].created_at > today - RecentWindowDays})

\* SELECT COUNT(*) FROM users u ... WHERE u.id != ? AND u.status = 'validated'
\*   AND u.created_at > datetime('now', '-7 days')
RecentMatches(user_id, today) ==
    Cardinality({id \in DOMAIN users :
        /\ id # user_id
        /\ users[id].status = "validated"
        /\ users[id].created_at > today - RecentWindowDays})

NewMatchRecommendation(user_id, recent_matches, today) ==
    [user_id |-> user_id, recommendation_type |-> "new_match",
     title |-> <<ToString(recent_matches), "nouveaux profils compatibles détectés">>,
     confidence_score |-> NewMatchConfidence,
     expires_at |-> today + NewMatchTtlDays, is_read |-> 0]

\* json.loads(user_profile['interest_themes']) raises on text that is not
\* JSON; iterating the decoded value raises on a number.
GenerateRaises(user_id) ==
    /\ user_id \in DOMAIN users
    /\ \/ LoadsRaises(users[user_id].interest_themes)
       \/ ~Iterable(Loads(users[user_id].interest_themes))

\* the list `recommendations` when the function reaches its save loop
Recommendations(user_id, today) ==
    IF user_id \notin DOMAIN users THEN <<>>
    ELSE TrendRecommendations(user_id, simulate_trend_detection,
                              Items(Loads(users[user_id].interest_themes)), today)
         \o (IF RecentMatches(user_id, today) > 0
             THEN <<NewMatchRecommendation(user_id, RecentMatches(user_id, today), today)>>
             ELSE <<>>)

\* SavedRecommendations without the early return for a missing requester:
\* the function goes on to its count of recent profiles and saves a
\* new_match recommendation for an id that has no row.
SavedRecommendations_NoEarlyReturn(stored, user_id, today) ==
    IF GenerateRaises(user_id) THEN stored
    ELSE IF user_id \in DOMAIN users THEN stored \o Recommendations(user_id, today)
    ELSE IF RecentMatches(user_id, today) > 0
         THEN Append(stored,
                     NewMatchRecommendation(user_id, RecentMatches(user_id, today), today))
         ELSE stored

\* SavedRecommendations with the save loop placed before the new_match
\* block: the new_match recommendation is returned and never saved.
SavedRecommendations_TrendsOnly(stored, user_id, today) ==
    IF user_id \notin DOMAIN users \/ GenerateRaises(user_id) THEN stored
    ELSE stored \o TrendRecommendations(user_id, simulate_trend_detection,
                       Items(Loads(users[user_id].interest_themes)), today)

\* SavedRecommendations with deduplication: a recommendation that is already
\* stored is not saved again.
SavedRecommendations_Deduplicated(stored, user_id, today) ==
    IF user_id \notin DOMAIN users \/ GenerateRaises(user_id) THEN stored
    ELSE stored \o SelectSeq(Recommendations(user_id, today),
                             LAMBDA r : r \notin Range(stored))

\* SavedRecommendations with a cleanup: the user's expired rows are deleted
\* before the new ones are saved.
SavedRecommendations_PurgeExpired(stored, user_id, today) ==
    IF user_id \notin DOMAIN users \/ GenerateRaises(user_id) THEN stored
    ELSE SelectSeq(stored, LAMBDA r : r.user_id # user_id \/ r.expires_at >= today)
         \o Recommendations(user_id, today)

\* the rows of ai_recommendations after the call
SavedRecommendations(stored, user_id, today) ==
    IF user_id \notin DOMAIN users \/ GenerateRaises(user_id) THEN stored
    ELSE stored \o Recommendations(user_id, today)

generate_proactive_recommendations(user_id) ==
    /\ Len(SavedRecommendations(ai_recommendations, user_id, now)) <= MaxRecommendations
    /\ ai_recommendations' = SavedRecommendations(ai_recommendations, user_id, now)
    /\ last' = IF GenerateRaises(user_id)
               THEN [op |-> "generate_proactive_recommendations", user_id |-> user_id,
                     outcome |-> "raised", result |-> <<>>]
               ELSE [op |-> "generate_proactive_recommendations", user_id |-> user_id,
                     outcome |-> "returned", result |-> Recommendations(user_id, now)]
    /\ UNCHANGED <<in_flight, users, interaction_history, now>>

(***************************************************************************)
(* find_matches as an operation: it reads, and writes nothing.             *)
(***************************************************************************)
find_matches(request) ==
    /\ last' = LET r == FindMatchesResult(request, interaction_history)
               IN  IF r.raised
                   THEN [op |-> "find_matches", request |-> request,
                         outcome |-> "raised", result |-> <<>>,
                         scored |-> Scored(request)]
                   ELSE [op |-> "find_matches", request |-> request,
                         outcome |-> "returned", result |-> r.v,
                         scored |-> Scored(request)]
    /\ UNCHANGED <<in_flight, users, interaction_history, ai_recommendations, now>>

(***************************************************************************)
(* update_interaction_feedback                                             *)
(***************************************************************************)
\* if user_profile and target_profile:
Resolved(user_id, target_user_id) ==
    user_id \in DOMAIN users /\ target_user_id \in DOMAIN users

\* the row the call inserts
InteractionRow(user_id, target_user_id, interaction_type, compatibility_score, success_indicator) ==
    [user_id |-> user_id, target_user_id |-> target_user_id,
     interaction_type |-> interaction_type,
     compatibility_score |-> compatibility_score,
     success_indicator |-> success_indicator]

\* FeedbackEffect with the guard `if user_profile:` only: a call whose
\* target has no row still inserts, with no score.
FeedbackEffect_ActorOnly(history, user_id, target_user_id, interaction_type, success_indicator) ==
    IF user_id \notin DOMAIN users
    THEN [outcome |-> "returned", resolved |-> FALSE, history |-> history]
    ELSE IF target_user_id \notin DOMAIN users
    THEN [outcome |-> "returned", resolved |-> FALSE,
          history |-> Append(history,
              InteractionRow(user_id, target_user_id, interaction_type, 0,
                             success_indicator))]
    ELSE LET score == simulate_compatibility_model(users[user_id], users[target_user_id])
         IN  IF score.raised
             THEN [outcome |-> "raised", resolved |-> TRUE, history |-> history]
             ELSE [outcome |-> "returned", resolved |-> TRUE,
                   history |-> Append(history,
                       InteractionRow(user_id, target_user_id, interaction_type,
                                      score.v, success_indicator))]

\* what the call does: nothing when a profile is missing, a raise out of the
\* scorer (before the INSERT), or the INSERT and commit
FeedbackEffect(history, user_id, target_user_id, interaction_type, success_indicator) ==
    IF ~Resolved(user_id, target_user_id)
    THEN [outcome |-> "returned", resolved |-> FALSE, history |-> history]
    ELSE LET score == simulate_compatibility_model(users[user_id], users[target_user_id])
         IN  IF score.raised
             THEN [outcome |-> "raised", resolved |-> TRUE, history |-> history]
             ELSE [outcome |-> "returned", resolved |-> TRUE,
                   history |-> Append(history,
                       InteractionRow(user_id, target_user_id, interaction_type,
                                      score.v, success_indicator))]

update_interaction_feedback(user_id, target_user_id, interaction_type, success_indicator) ==
    LET effect == FeedbackEffect(interaction_history, user_id, target_user_id,
                                 interaction_type, success_indicator)
    IN  /\ Len(effect.history) <= MaxHistory
        /\ interaction_history' = effect.history
        /\ last' = [op |-> "update_interaction_feedback",
                    resolved |-> Resolved(user_id, target_user_id),
                    outcome |-> effect.outcome]
        /\ UNCHANGED <<in_flight, users, ai_recommendations, now>>

(***************************************************************************)
(* Inputs.                                                                 *)
(***************************************************************************)
Thresholds == {0, 60}

MatchTypes == {{"all"}, {"exhibitor"}}

Requests ==
    [user_id : UserIds \cup {UnknownId}, match_types : MatchTypes,
     min_compatibility : Thresholds, limit : 0..MaxLimit]

(***************************************************************************)
(* SpecMatching: any contents of the users table; find_matches is called   *)
(* with any request.                                                       *)
(***************************************************************************)
InitMatching ==
    /\ users \in Databases
    /\ interaction_history = <<>>
    /\ ai_recommendations = <<>>
    /\ now = 0
    /\ last = [op |-> "none"]
    /\ in_flight = <<>>

NextMatching == \E request \in Requests : find_matches(request)

SpecMatching == InitMatching /\ [][NextMatching]_vars

(***************************************************************************)
(* SpecRecommend: any contents of the users table;                         *)
(* generate_proactive_recommendations is called for any user id, stored or *)
(* not, and find_matches with the widest request of each requester.        *)
(***************************************************************************)
WidestRequests ==
    {request \in Requests : request.limit = MaxLimit /\ request.match_types = {"all"}}

NextRecommend ==
    \/ \E user_id \in UserIds \cup {UnknownId} : generate_proactive_recommendations(user_id)
    \/ \E request \in WidestRequests : find_matches(request)

SpecRecommend == InitMatching /\ [][NextRecommend]_vars

(***************************************************************************)
(* SpecFeedback: a users table with two complete profiles and a user       *)
(* without detailed profile; update_interaction_feedback is called with    *)
(* any actor and target, stored or not.                                    *)
(***************************************************************************)
RichC == [RichB EXCEPT !.meeting_availability = Text("Immédiat")]

FeedbackUsers == (1 :> RichA) @@ (2 :> RichC) @@ (3 :> NoDetail)

FeedbackTypes == {"message"}

SuccessIndicators == {0, 1}

InitFeedback ==
    /\ users = FeedbackUsers
    /\ interaction_history = <<>>
    /\ ai_recommendations = <<>>
    /\ now = 0
    /\ last = [op |-> "none"]
    /\ in_flight = <<>>

NextFeedback ==
    \E user_id \in UserIds \cup {UnknownId}, target_user_id \in UserIds \cup {UnknownId},
       interaction_type \in FeedbackTypes, success_indicator \in SuccessIndicators :
        update_interaction_feedback(user_id, target_user_id, interaction_type,
                                    success_indicator)

SpecFeedback == InitFeedback /\ [][NextFeedback]_vars

(***************************************************************************)
(* SpecScore: the scorer as a function of two stored profiles.  The        *)
(* profiles are two complete ones that reach the highest score, a plain    *)
(* one, a user without detailed profile, and every profile that differs    *)
(* from a complete one in one column.                                      *)
(***************************************************************************)
FourThemes == JsonList(<<"digitalization", "green_energy", "port_management", "regulations">>)

FullA == [RichA EXCEPT !.interest_themes = FourThemes]

FullB == [RichB EXCEPT !.interest_themes = FourThemes]

ListValues == {Null, JsonList(<<>>), JsonNumber, NotJson}

TextValues == {Null, Text(""), Text("Startup Inc"), Text("Immédiat")}

ScoreProfiles ==
    {FullA, FullB, Plain, NoDetail}
    \cup {[FullB EXCEPT !.sectors_activity = x] : x \in ListValues}
    \cup {[FullB EXCEPT !.products_services = x] : x \in ListValues}
    \cup {[FullA EXCEPT !.participation_objectives = x] : x \in ListValues}
    \cup {[FullB EXCEPT !.interest_themes = x] : x \in ListValues}
    \cup {[FullA EXCEPT !.looking_for = x] : x \in ListValues}
    \cup {[FullB EXCEPT !.geographic_location = x] : x \in ListValues}
    \cup {[FullA EXCEPT !.geographic_location = JsonList(<<"Port">>)],
          [FullB EXCEPT !.geographic_location = JsonList(<<"Port IA", "Paris">>)]}
    \cup {[FullB EXCEPT !.company_size = x] : x \in TextValues}
    \cup {[FullB EXCEPT !.meeting_availability = x] : x \in TextValues}

ScoreIds == 1..2

\* score(A, B) for two stored profiles
score(a, b) ==
    /\ last' = [op |-> "score", profile1 |-> a, profile2 |-> b,
                result |-> simulate_compatibility_model(users[a], users[b])]
    /\ UNCHANGED <<in_flight, users, interaction_history, ai_recommendations, now>>

InitScore ==
    /\ users \in [ScoreIds -> ScoreProfiles]
    /\ interaction_history = <<>>
    /\ ai_recommendations = <<>>
    /\ now = 0
    /\ last = [op |-> "none"]
    /\ in_flight = <<>>

NextScore == \E a \in ScoreIds, b \in ScoreIds : score(a, b)

SpecScore == InitScore /\ [][NextScore]_vars

(***************************************************************************)
(* What the claims speak of.                                               *)
(***************************************************************************)
ListColumns(row) ==
    {row.sectors_activity, row.products_services, row.participation_objectives,
     row.interest_themes, row.looking_for, row.geographic_location}

\* every list column is NULL or the encoding of a list
WellFormed(row) == \A x \in ListColumns(row) : x.k \in {"null", "list"}

\* the row has a detailed profile with both scalar texts
Complete(row) == row.company_size.k = "text" /\ row.meeting_availability.k = "text"

\* the row with every list column that does not decode to a list read as []
Sanitized(row) ==
    LET fix(x) == IF x.k \in {"null", "list"} THEN x ELSE JsonList(<<>>)
    IN  [row EXCEPT !.sectors_activity = fix(@), !.products_services = fix(@),
                    !.participation_objectives = fix(@), !.interest_themes = fix(@),
                    !.looking_for = fix(@), !.geographic_location = fix(@)]

LastFind == last.op = "find_matches" /\ last.request.user_id \in DOMAIN users

\* the candidates of the last request and those that reach its threshold
LastCandidates == Range(Candidates(last.request))

LastScore(id) == simulate_compatibility_model(users[last.request.user_id], users[id])

\* requester and candidates of the last request are well-formed and complete
LastClean ==
    \A id \in LastCandidates \cup {last.request.user_id} :
        WellFormed(users[id]) /\ Complete(users[id])

LastQualifying ==
    {id \in LastCandidates : ~LastScore(id).raised
                             /\ Qualifies(LastScore(id).v, last.request)}

ReturnedIds == {last.result[i].matched_user_id : i \in DOMAIN last.result}

(***************************************************************************)
(* C1..C10                                                                 *)
(***************************************************************************)
SuccessfulRows(history, user_id, target_user_id) ==
    {i \in DOMAIN history :
        /\ history[i].user_id = user_id
        /\ history[i].target_user_id = target_user_id
        /\ history[i].success_indicator >= 1}

\* C1: once an actor x has recorded a successful interaction with a target t,
\* every other actor y who has recorded at least two successful interactions
\* with t gets a collaborative boost above 0.5 for t.
C1_FeedbackLoop ==
    \A x \in UserIds, y \in UserIds, t \in UserIds :
        (/\ x # y /\ x # t /\ y # t
         /\ last.op = "update_interaction_feedback"
         /\ last.resolved /\ last.outcome = "returned"
         /\ interaction_history # <<>>
         /\ LET row == interaction_history[Len(interaction_history)]
            IN  row.user_id = x /\ row.target_user_id = t /\ row.success_indicator = 1
         /\ Cardinality(SuccessfulRows(interaction_history, y, t)) >= 2)
        => CollaborativeBoost(interaction_history, y, t) > DefaultBoost

\* C2: when a candidate that passed the threshold fails in the building of
\* its bundle, find_matches still returns, without that candidate.
C2_FaultIsolation ==
    (/\ LastFind
     /\ LastClean
     /\ \E id \in LastQualifying : BuildRaises(users[last.request.user_id], users[id]))
    => /\ last.outcome = "returned"
       /\ \A id \in ReturnedIds :
              ~BuildRaises(users[last.request.user_id], users[id])

\* C3: find_matches answers a request that has candidates on both sides of
\* the threshold with candidates whose score before adjustment is at least
\* min_compatibility.
C3_ThresholdOnBaseScore ==
    (/\ LastFind
     /\ LastClean
     /\ LastQualifying # {}
     /\ LastCandidates \ LastQualifying # {})
    => /\ last.outcome = "returned"
       /\ ReturnedIds \subseteq LastQualifying

\* C4: find_matches answers a request that more than limit candidates
\* qualify for with at most limit results.
C4_AtMostLimit ==
    (/\ LastFind
     /\ LastClean
     /\ Cardinality(LastQualifying) > last.request.limit)
    => /\ last.outcome = "returned"
       /\ Len(last.result) <= last.request.limit

\* C5: find_matches answers a request that two candidates or more qualify
\* for with a sequence whose final scores never increase.
C5_SortedByFinalScore ==
    (/\ LastFind
     /\ LastClean
     /\ Cardinality(LastQualifying) >= 2)
    => /\ last.outcome = "returned"
       /\ \A i \in DOMAIN last.result, j \in DOMAIN last.result :
              i <= j => last.result[i].compatibility_score
                            >= last.result[j].compatibility_score

\* C6: find_matches answers a request that a candidate qualifies for with
\* results whose final score is min(100, floor(base * (1 + 0.1 * boost)))
\* for a boost of at least 0.5, and lies between the base score and 100.
C6_AdjustmentRaises ==
    (/\ LastFind
     /\ LastClean
     /\ LastQualifying # {})
    => /\ last.outcome = "returned"
       /\ \A i \in DOMAIN last.result :
              LET id == last.result[i].matched_user_id
                  base == LastScore(id).v
                  boost == CollaborativeBoost(interaction_history,
                                              last.request.user_id, id)
                  final == last.result[i].compatibility_score
              IN  /\ boost >= DefaultBoost
                  /\ final = AdjustedScore(base, boost)
                  /\ base <= final /\ final <= MaxScore

\* C7: the scorer returns an integer from 0 to 100 for every pair of
\* profiles whose list columns are lists or absent, whatever is empty or
\* absent in them.
C7_ScoreInRange ==
    (/\ last.op = "score"
     /\ WellFormed(users[last.profile1]) /\ WellFormed(users[last.profile2]))
    => /\ ~last.result.raised
       /\ last.result.v \in 0..MaxScore

\* the score of a candidate of the last request when every column that does
\* not decode to a list is read as the empty list
LastScoreWithDefaults(id) ==
    simulate_compatibility_model(Sanitized(users[last.request.user_id]),
                                 Sanitized(users[id]))

\* C8: a candidate with a list column that does not decode to a list is
\* scored with the empty list in its place and find_matches returns; here no
\* candidate reaches the threshold with that score, so that it returns the
\* empty sequence.
C8_MalformedAsEmpty ==
    (/\ LastFind
     /\ WellFormed(users[last.request.user_id])
     /\ \A id \in LastCandidates \cup {last.request.user_id} : Complete(users[id])
     /\ \E id \in LastCandidates : ~WellFormed(users[id])
     /\ \A id \in LastCandidates :
            ~Qualifies(LastScoreWithDefaults(id).v, last.request))
    => /\ last.outcome = "returned"
       /\ last.result = <<>>

\* C9: for a requester that has no row, find_matches and
\* generate_proactive_recommendations return the empty sequence without
\* raising, and generate_proactive_recommendations leaves ai_recommendations
\* as it was.
C9_MissingRequester ==
    [][/\ (last'.op = "find_matches" /\ last'.request.user_id \notin DOMAIN users)
          => last'.outcome = "returned" /\ last'.result = <<>>
       /\ (/\ last'.op = "generate_proactive_recommendations"
           /\ last'.user_id \notin DOMAIN users)
          => /\ last'.outcome = "returned" /\ last'.result = <<>>
             /\ ai_recommendations' = ai_recommendations]_vars

\* generate_proactive_recommendations has returned for a requester without
\* row while recommendations of other users are stored and another user was
\* created within the last seven days
C9_Witness ==
    /\ last.op = "generate_proactive_recommendations"
    /\ last.user_id \notin DOMAIN users
    /\ last.outcome = "returned"
    /\ ai_recommendations # <<>>
    /\ RecentMatches(last.user_id, now) > 0

\* C10: update_interaction_feedback with an actor or a target that has no
\* row raises nothing and leaves interaction_history as it was.
C10_SilentNoOp ==
    [][(last'.op = "update_interaction_feedback" /\ ~last'.resolved)
       => /\ last'.outcome = "returned"
          /\ interaction_history' = interaction_history]_vars

\* a call with a missing profile has returned while the history holds rows
C10_Witness ==
    /\ last.op = "update_interaction_feedback"
    /\ ~last.resolved
    /\ last.outcome = "returned"
    /\ interaction_history # <<>>

(***************************************************************************)
(* C11..C20                                                                *)
(***************************************************************************)
\* C11: update_interaction_feedback with an actor and a target that both
\* have a row appends one row to interaction_history: the arguments and the
\* score of the two profiles.
C11_AppendsOneRecord ==
    [][\A user_id \in UserIds, target_user_id \in UserIds,
          interaction_type \in FeedbackTypes, success_indicator \in SuccessIndicators :
           (/\ update_interaction_feedback(user_id, target_user_id, interaction_type,
                                           success_indicator)
            /\ Resolved(user_id, target_user_id))
           => LET computed == simulate_compatibility_model(users[user_id],
                                                        users[target_user_id])
              IN  /\ ~computed.raised
                  /\ last'.outcome = "returned"
                  /\ interaction_history' =
                         Append(interaction_history,
                                InteractionRow(user_id, target_user_id, interaction_type,
                                               computed.v, success_indicator))]_vars

LastGenerate ==
    last.op = "generate_proactive_recommendations" /\ last.outcome = "returned"

\* C12: when generate_proactive_recommendations returns, the store is the
\* store before the call followed by the returned recommendations.
C12_PersistedBeforeReturn ==
    [][(last'.op = "generate_proactive_recommendations" /\ last'.outcome = "returned")
       => ai_recommendations' = ai_recommendations \o last'.result]_vars

\* a call has returned a trend and a new_match recommendation to a store
\* that held rows before
C12_Witness ==
    /\ LastGenerate
    /\ Len(last.result) >= 2
    /\ last.result[Len(last.result)].recommendation_type = "new_match"
    /\ Len(ai_recommendations) > Len(last.result)

\* C13: a call of generate_proactive_recommendations that returns adds the
\* full set of the user's recommendations to the store, whatever rows the
\* store holds already.
C13_NoDeduplication ==
    [][(last'.op = "generate_proactive_recommendations" /\ last'.outcome = "returned")
       => Len(ai_recommendations') =
              Len(ai_recommendations) + Len(Recommendations(last'.user_id, now))]_vars

\* a call has returned recommendations the store held already: the store
\* holds the same row twice
C13_Witness ==
    /\ LastGenerate
    /\ last.result # <<>>
    /\ \E i \in DOMAIN ai_recommendations, j \in DOMAIN ai_recommendations :
           /\ i < j
           /\ ai_recommendations[i] = ai_recommendations[j]
           /\ ai_recommendations[j].user_id = last.user_id

\* the interest themes of the requester of the last call
LastInterests ==
    IF last.user_id \in DOMAIN users
    THEN Range(Items(Loads(users[last.user_id].interest_themes)))
    ELSE {}

\* the positions of the returned recommendations of a type
LastOfType(type) ==
    {i \in DOMAIN last.result : last.result[i].recommendation_type = type}

\* the positions of the returned recommendations on a trend
LastOnTopic(topic) ==
    {i \in LastOfType("trending_topic") :
        last.result[i].title = <<"Tendance détectée", topic>>}

\* C14, as written: a user whose interest themes include "digitalization"
\* gets exactly one trending_topic recommendation, with confidence 85 and
\* expiry 7 days after generation.
C14_ExactlyOneTrend ==
    (LastGenerate /\ "digitalization" \in LastInterests)
    => /\ Cardinality(LastOfType("trending_topic")) = 1
       /\ \A i \in LastOfType("trending_topic") :
              /\ last.result[i].confidence_score = 85
              /\ last.result[i].expires_at = now + 7

\* C14, amended: a user whose interest themes include "digitalization" gets
\* exactly one trending_topic recommendation on the trend of strength 0.85,
\* with confidence 85 and expiry 7 days after generation, and one more on
\* the catalog's other trend on sector "digitalization", with confidence 72
\* and the same expiry.
C14_OnePerDigitalizationTrend ==
    (LastGenerate /\ "digitalization" \in LastInterests)
    => /\ Cardinality(LastOnTopic("Intelligence Artificielle Portuaire")) = 1
       /\ \A i \in LastOnTopic("Intelligence Artificielle Portuaire") :
              /\ last.result[i].confidence_score = 85
              /\ last.result[i].expires_at = now + 7
       /\ Cardinality(LastOnTopic("Automatisation Terminaux")) = 1
       /\ \A i \in LastOnTopic("Automatisation Terminaux") :
              /\ last.result[i].confidence_score = 72
              /\ last.result[i].expires_at = now + 7

\* a user whose only interest theme is "digitalization" has been returned
\* two trending_topic recommendations
C14_Witness ==
    /\ LastGenerate
    /\ LastInterests = {"digitalization"}
    /\ Cardinality(LastOfType("trending_topic")) = 2

\* C15: the returned recommendations hold exactly one trending_topic
\* recommendation for each trend of the catalog whose sectors intersect the
\* requester's interest themes, and none for any other trend.
C15_OnePerMatchingTrend ==
    (LastGenerate /\ last.user_id \in DOMAIN users)
    => /\ \A k \in DOMAIN simulate_trend_detection :
              LET trend == simulate_trend_detection[k]
              IN  Cardinality(LastOnTopic(trend.topic)) =
                      IF Range(trend.sectors) \cap LastInterests # {} THEN 1 ELSE 0
       /\ \A i \in LastOfType("trending_topic") :
              \E k \in DOMAIN simulate_trend_detection :
                  i \in LastOnTopic(simulate_trend_detection[k].topic)

\* a user with two interest themes has been returned recommendations on
\* some trends of the catalog and not on others
C15_Witness ==
    /\ LastGenerate
    /\ Cardinality(LastInterests) = 2
    /\ Cardinality(LastOfType("trending_topic")) = 3

\* the validated users other than the requester of the last call created
\* in the last seven days
LastRecentProfiles ==
    {id \in DOMAIN users \ {last.user_id} :
        users[id].status = "validated" /\ users[id].created_at > now - 7}

\* C16: the returned recommendations hold one new_match recommendation, with
\* confidence 85 and expiry 3 days after generation, when a validated user
\* other than the requester was created in the last 7 days, and none
\* otherwise.
C16_OneNewMatch ==
    (LastGenerate /\ last.user_id \in DOMAIN users)
    => /\ Cardinality(LastOfType("new_match")) =
              IF LastRecentProfiles # {} THEN 1 ELSE 0
       /\ \A i \in LastOfType("new_match") :
              /\ last.result[i].confidence_score = 85
              /\ last.result[i].expires_at = now + 3

\* a call has returned a new_match recommendation while a user who is not
\* validated was created in the last seven days too
C16_Witness ==
    /\ LastGenerate
    /\ LastOfType("new_match") # {}
    /\ \E id \in DOMAIN users \ {last.user_id} :
           users[id].status # "validated" /\ users[id].created_at > now - 7

(***************************************************************************)
(* SpecEngine: the three operations in any order on one users table, while *)
(* time passes: datetime.now() of a later call is later.                   *)
(***************************************************************************)
MaxDay == 9

\* time passes by the shorter of the two expiry delays
Tick ==
    /\ now < MaxDay
    /\ now' = now + NewMatchTtlDays
    /\ UNCHANGED <<in_flight, users, interaction_history, ai_recommendations, last>>

EngineRequests ==
    {request \in WidestRequests :
        request.user_id \in UserIds /\ request.min_compatibility = 0}

\* the two users with a complete profile record successes with the third
EngineActors == {user_id \in UserIds : Complete(users[user_id])}

EngineTarget == CHOOSE user_id \in UserIds : ~Complete(users[user_id])

NextEngine ==
    \/ \E request \in EngineRequests : find_matches(request)
    \/ \E user_id \in UserIds : generate_proactive_recommendations(user_id)
    \/ \E user_id \in EngineActors :
           update_interaction_feedback(user_id, EngineTarget, "message", 1)
    \/ Tick

SpecEngine == InitFeedback /\ [][NextEngine]_vars

IsPrefix(s, t) == Len(s) <= Len(t) /\ SubSeq(t, 1, Len(s)) = s

\* C17: every step leaves the rows of interaction_history and of
\* ai_recommendations where and as they were: the stores only grow at the
\* end.
C17_AppendOnly ==
    [][/\ IsPrefix(interaction_history, interaction_history')
       /\ IsPrefix(ai_recommendations, ai_recommendations')]_vars

\* generate_proactive_recommendations has saved rows behind a row of the
\* same user that had expired, with rows in the history
C17_Witness ==
    /\ LastGenerate
    /\ interaction_history # <<>>
    /\ \E i \in DOMAIN ai_recommendations, j \in DOMAIN ai_recommendations :
           /\ i < j
           /\ ai_recommendations[i].user_id = ai_recommendations[j].user_id
           /\ ai_recommendations[i].expires_at < now
           /\ ai_recommendations[j].expires_at > now

(***************************************************************************)
(* SpecConcurrent: two calls of update_interaction_feedback by distinct    *)
(* actors, each on a connection of its own, their statements interleaved   *)
(* in any order.  The INSERT opens the connection's transaction and takes  *)
(* the write lock of the database file; the row is in the table for the    *)
(* other connections at the commit.  An INSERT that finds the lock taken   *)
(* waits for the commit of its holder (sqlite3's busy timeout is taken to  *)
(* be longer than the time a call holds the lock).                         *)
(***************************************************************************)
CallIds == 1..2

\* fetchone() of SELECT u.*, upd.* ... WHERE u.id = ?
Fetch(user_id) ==
    IF user_id \in DOMAIN users
    THEN [found |-> TRUE, row |-> users[user_id]]
    ELSE [found |-> FALSE]

StartedCall(user_id, target_user_id, interaction_type, success_indicator) ==
    [user_id |-> user_id, target_user_id |-> target_user_id,
     interaction_type |-> interaction_type, success_indicator |-> success_indicator,
     pc |-> "select_user", user_profile |-> [found |-> FALSE],
     target_profile |-> [found |-> FALSE], compatibility_score |-> 0,
     inserted |-> FALSE]

StartedCalls ==
    {StartedCall(user_id, target_user_id, interaction_type, success_indicator) :
        user_id \in UserIds, target_user_id \in UserIds,
        interaction_type \in FeedbackTypes, success_indicator \in SuccessIndicators}

InitConcurrent ==
    /\ users = FeedbackUsers
    /\ interaction_history = <<>>
    /\ ai_recommendations = <<>>
    /\ now = 0
    /\ last = [op |-> "none"]
    /\ in_flight \in {calls \in [CallIds -> StartedCalls] :
                          \A c \in CallIds, d \in CallIds :
                              c # d => calls[c].user_id # calls[d].user_id}

\* user_profile = conn.execute(...).fetchone()
SelectUserProfile(c) ==
    /\ in_flight[c].pc = "select_user"
    /\ in_flight' = [in_flight EXCEPT ![c].user_profile = Fetch(in_flight[c].user_id),
                                      ![c].pc = "select_target"]
    /\ UNCHANGED <<users, interaction_history, ai_recommendations, now, last>>

\* target_profile = conn.execute(...).fetchone()
SelectTargetProfile(c) ==
    /\ in_flight[c].pc = "select_target"
    /\ in_flight' = [in_flight EXCEPT
                         ![c].target_profile = Fetch(in_flight[c].target_user_id),
                         ![c].pc = "score"]
    /\ UNCHANGED <<users, interaction_history, ai_recommendations, now, last>>

\* if user_profile and target_profile: compatibility_score = ...
\* A raise of the scorer leaves the call, before the INSERT.
ComputeScore(c) ==
    /\ in_flight[c].pc = "score"
    /\ LET call == in_flight[c]
       IN  IF ~(call.user_profile.found /\ call.target_profile.found)
           THEN in_flight' = [in_flight EXCEPT ![c].pc = "commit"]
           ELSE LET computed == simulate_compatibility_model(call.user_profile.row,
                                                             call.target_profile.row)
                IN  IF computed.raised
                    THEN in_flight' = [in_flight EXCEPT ![c].pc = "raised"]
                    ELSE in_flight' = [in_flight EXCEPT
                                           ![c].compatibility_score = computed.v,
                                           ![c].pc = "insert"]
    /\ UNCHANGED <<users, interaction_history, ai_recommendations, now, last>>

\* another connection holds the write lock: it has inserted and not committed
WriteLocked(c) ==
    \E d \in CallIds \ {c} : in_flight[d].pc = "commit" /\ in_flight[d].inserted

\* conn.execute('INSERT INTO interaction_history ...')
InsertRow(c) ==
    /\ in_flight[c].pc = "insert"
    /\ ~WriteLocked(c)
    /\ in_flight' = [in_flight EXCEPT ![c].inserted = TRUE, ![c].pc = "commit"]
    /\ UNCHANGED <<users, interaction_history, ai_recommendations, now, last>>

\* conn.commit(); conn.close()
Commit(c) ==
    /\ in_flight[c].pc = "commit"
    /\ interaction_history' =
           IF in_flight[c].inserted
           THEN Append(interaction_history,
                       InteractionRow(in_flight[c].user_id, in_flight[c].target_user_id,
                                      in_flight[c].interaction_type,
                                      in_flight[c].compatibility_score,
                                      in_flight[c].success_indicator))
           ELSE interaction_history
    /\ in_flight' = [in_flight EXCEPT ![c].pc = "returned"]
    /\ UNCHANGED <<users, ai_recommendations, now, last>>

NextConcurrent ==
    \E c \in CallIds :
        \/ SelectUserProfile(c)
        \/ SelectTargetProfile(c)
        \/ ComputeScore(c)
        \/ InsertRow(c)
        \/ Commit(c)

SpecConcurrent == InitConcurrent /\ [][NextConcurrent]_vars

\* both calls have left update_interaction_feedback
AllCallsOver == \A c \in CallIds : in_flight[c].pc \in {"returned", "raised"}

\* the history after the calls of in_flight run one after the other in the
\* order given
RECURSIVE SerialHistory(_, _)
SerialHistory(history, order) ==
    IF order = <<>> THEN history
    ELSE LET call == in_flight[Head(order)]
         IN  SerialHistory(FeedbackEffect(history, call.user_id, call.target_user_id,
                                          call.interaction_type,
                                          call.success_indicator).history,
                           Tail(order))

\* whatever the interleaving, the history is the one of the two calls run
\* one after the other, in one of the two orders
InterleavingsMatchSerial ==
    (DOMAIN in_flight = CallIds /\ AllCallsOver)
    => interaction_history \in {SerialHistory(<<>>, <<1, 2>>), SerialHistory(<<>>, <<2, 1>>)}

\* C18: when two calls by distinct actors whose profiles and targets'
\* profiles exist are over, the history holds one row for each call, with
\* the call's arguments and the score of its two profiles.
C18_IndependentAppends ==
    (DOMAIN in_flight = CallIds /\ AllCallsOver)
    => /\ Len(interaction_history) = Cardinality(CallIds)
       /\ \A c \in CallIds :
              LET call == in_flight[c]
                  computed == simulate_compatibility_model(users[call.user_id],
                                                           users[call.target_user_id])
              IN  /\ ~computed.raised
                  /\ Cardinality({i \in DOMAIN interaction_history :
                         interaction_history[i] =
                             InteractionRow(call.user_id, call.target_user_id,
                                            call.interaction_type, computed.v,
                                            call.success_indicator)}) = 1

(***************************************************************************)
(* _suggest_conversation_topics.  Of factors it reads common_interests and *)
(* whether complementary_needs is empty.  The padding loop is one step for *)
(* each draw of random.choice; last holds the list `topics` of the call.   *)
(***************************************************************************)
Categories ==
    {"port_management", "port_equipment", "maritime_tech", "green_energy",
     "digitalization", "regulations", "logistics"}

generic_topics ==
    <<"Innovations technologiques maritimes", "Réglementations internationales récentes",
      "Tendances du marché portuaire", "Projets de développement durable">>

\* the topics appended before the padding loop
SpecificTopics(common_interests, complementary_needs) ==
    (IF "digitalization" \in common_interests
     THEN <<"Transformation digitale des ports">> ELSE <<>>)
    \o (IF "green_energy" \in common_interests
        THEN <<"Solutions énergies renouvelables offshore">> ELSE <<>>)
    \o (IF "port_management" \in common_interests
        THEN <<"Optimisation des opérations portuaires">> ELSE <<>>)
    \o (IF complementary_needs THEN <<"Opportunités de collaboration business">> ELSE <<>>)

\* AppendDrawn without the test `if topic not in topics`
AppendDrawn_Unchecked(topics, topic) == Append(topics, topic)

\* AppendDrawn with the test inverted: `if topic in topics`
AppendDrawn_Inverted(topics, topic) ==
    IF topic \in Range(topics) THEN Append(topics, topic) ELSE topics

\* if topic not in topics: topics.append(topic)
AppendDrawn(topics, topic) ==
    IF topic \in Range(topics) THEN topics ELSE Append(topics, topic)

\* the call up to its padding loop
suggest_conversation_topics(common_interests, complementary_needs) ==
    /\ IF last.op = "none" THEN TRUE ELSE last.pc = "returned"
    /\ last' = [op |-> "suggest_conversation_topics",
                common_interests |-> common_interests,
                complementary_needs |-> complementary_needs,
                topics |-> SpecificTopics(common_interests, complementary_needs),
                pc |-> "while", result |-> <<>>]
    /\ UNCHANGED <<users, interaction_history, ai_recommendations, now, in_flight>>

\* while len(topics) < 3: topic = random.choice(generic_topics); ...
DrawGenericTopic ==
    /\ last.op = "suggest_conversation_topics"
    /\ last.pc = "while"
    /\ Len(last.topics) < 3
    /\ \E k \in DOMAIN generic_topics :
           last' = [last EXCEPT !.topics = AppendDrawn(@, generic_topics[k])]
    /\ UNCHANGED <<users, interaction_history, ai_recommendations, now, in_flight>>

\* return topics[:4]
ReturnTopics ==
    /\ last.op = "suggest_conversation_topics"
    /\ last.pc = "while"
    /\ Len(last.topics) >= 3
    /\ last' = [last EXCEPT !.pc = "returned", !.result = Take(last.topics, 4)]
    /\ UNCHANGED <<users, interaction_history, ai_recommendations, now, in_flight>>

NextTopics ==
    \/ \E common_interests \in SUBSET Categories, complementary_needs \in BOOLEAN :
           suggest_conversation_topics(common_interests, complementary_needs)
    \/ DrawGenericTopic
    \/ ReturnTopics

SpecTopics == InitFeedback /\ [][NextTopics]_vars

\* C19: the list _suggest_conversation_topics returns has 3 or 4 entries, no
\* two of them equal.
C19_TopicsThreeOrFour ==
    (last.op = "suggest_conversation_topics" /\ last.pc = "returned")
    => /\ Len(last.result) \in {3, 4}
       /\ \A i \in DOMAIN last.result, j \in DOMAIN last.result :
              i # j => last.result[i] # last.result[j]

\* a call has returned a list that the loop padded with two generic topics
C19_Witness ==
    /\ last.op = "suggest_conversation_topics"
    /\ last.pc = "returned"
    /\ Len(SpecificTopics(last.common_interests, last.complementary_needs)) = 1
    /\ Len(last.result) = 3

\* C20: the geography factor is 15 when the two location lists share an
\* element, otherwise 8 when some location of one profile is a substring of a
\* location of the other, otherwise 0; here for a pair with no common
\* location and a location of one inside a location of the other.
C20_SubstringGivesEight ==
    (/\ last.op = "score"
     /\ users[last.profile1].geographic_location.k = "list"
     /\ users[last.profile2].geographic_location.k = "list"
     /\ users[last.profile1].geographic_location.v # <<>>
     /\ users[last.profile2].geographic_location.v # <<>>)
    => LET geo1 == users[last.profile1].geographic_location.v
           geo2 == users[last.profile2].geographic_location.v
           points == GeographyPoints(users[last.profile1], users[last.profile2])
       IN  IF Range(geo1) \cap Range(geo2) # {} THEN points = 15
           ELSE IF \E x \in Range(geo1), y \in Range(geo2) :
                       \/ IsSubstring(Chars(x), Chars(y))
                       \/ IsSubstring(Chars(y), Chars(x))
                THEN points = 8
                ELSE points = 0

\* C21: the complementarity factor is min(20, 4 * n), n the number of
\* objective phrases of the first profile that share a whitespace token with
\* at least one product/service phrase of the second, each phrase counted
\* once.
C21_EachObjectiveOnce ==
    (last.op = "score"
     /\ ~ComplementarityRaises(users[last.profile1], users[last.profile2]))
    => LET obj1 == Items(Loads(users[last.profile1].participation_objectives))
           services == Items(Loads(users[last.profile2].products_services))
           n == Cardinality({i \in DOMAIN obj1 : \E j \in DOMAIN services :
                    Range(Split(Lower(obj1[i]))) \cap Range(Split(Lower(services[j]))) # {}})
       IN  ComplementarityPoints(users[last.profile1], users[last.profile2])
               = Min(20, 4 * n)

\* C22: the availability factor is 10 when either availability text contains
\* the immediate marker, otherwise 5 when both texts are non-empty, otherwise
\* 0, and the scorer returns a score when one or both profiles have no
\* availability stored.
C22_AvailabilityNeverFails ==
    (last.op = "score"
     /\ WellFormed(users[last.profile1]) /\ WellFormed(users[last.profile2]))
    => LET avail1 == users[last.profile1].meeting_availability
           avail2 == users[last.profile2].meeting_availability
           marked(avail) == IF avail.k = "text" THEN HasImmediat(avail) ELSE FALSE
       IN  IF last.result.raised THEN FALSE
           ELSE AvailabilityPoints(users[last.profile1], users[last.profile2])
                    = IF marked(avail1) \/ marked(avail2) THEN 10
                      ELSE IF Truthy(avail1) /\ Truthy(avail2) THEN 5
                      ELSE 0

(***************************************************************************)
(* SpecExplain: the three texts of a MatchResult, for any factors and any   *)
(* score around the band limits.                                           *)
(***************************************************************************)
InterestLists ==
    {<<>>, <<"digitalization">>, <<"digitalization", "green_energy">>,
     <<"green_energy", "digitalization", "logistics">>}

NeedLists ==
    {<<>>, <<[need |-> "IoT", product |-> "IoT hub"]>>,
     <<[need |-> "IoT", product |-> "IoT hub"], [need |-> "IoT", product |-> "media iot"]>>}

Alignments == {Ratio(0, 1), Ratio(1, 2), Ratio(2, 3), Ratio(1, 1)}

FactorChoices ==
    [common_interests : InterestLists, complementary_needs : NeedLists,
     sector_alignment : Alignments]

BandScores == {0, 69, 70, 79, 80, 84, 85, 89, 90, 100}

generate_ai_explanation(factors, compatibility_score) ==
    /\ last' = [op |-> "generate_ai_explanation", factors |-> factors,
                score |-> compatibility_score,
                result |-> Explanation(factors, compatibility_score)]
    /\ UNCHANGED <<users, interaction_history, ai_recommendations, now, in_flight>>

generate_ai_recommendation(factors, compatibility_score) ==
    /\ last' = [op |-> "generate_ai_recommendation", factors |-> factors,
                score |-> compatibility_score,
                result |-> Recommendation(compatibility_score, factors)]
    /\ UNCHANGED <<users, interaction_history, ai_recommendations, now, in_flight>>

business_potential(factors, compatibility_score) ==
    /\ last' = [op |-> "assess_business_potential", factors |-> factors,
                score |-> compatibility_score,
                result |-> assess_business_potential(compatibility_score, factors)]
    /\ UNCHANGED <<users, interaction_history, ai_recommendations, now, in_flight>>

NextExplain ==
    \E factors \in FactorChoices, compatibility_score \in BandScores :
        \/ generate_ai_explanation(factors, compatibility_score)
        \/ generate_ai_recommendation(factors, compatibility_score)
        \/ business_potential(factors, compatibility_score)

SpecExplain == InitFeedback /\ [][NextExplain]_vars

\* C23 as stated: the explanation has the opening phrase and at most two
\* clauses, also when common interests, complementary needs and a sector
\* alignment above 0.5 are all present.
C23_AtMostTwoClauses ==
    last.op = "generate_ai_explanation"
    => /\ last.result.tone = Tone(last.score)
       /\ Len(last.result.clauses) <= 2

\* C23 amended: the explanation has the opening phrase and at most three
\* clauses; when common interests, complementary needs and a sector alignment
\* above 0.5 are all present, all three clauses appear, in that order.
C23_AtMostThreeClauses ==
    last.op = "generate_ai_explanation"
    => /\ last.result.tone = Tone(last.score)
       /\ Len(last.result.clauses) <= 3
       /\ (/\ last.factors.common_interests # <<>>
           /\ last.factors.complementary_needs # <<>>
           /\ Exceeds(last.factors.sector_alignment, 1, 2))
          => /\ Len(last.result.clauses) = 3
             /\ last.result.clauses[1].clause = "common_interests"
             /\ last.result.clauses[2].clause = "complementary_needs"
             /\ last.result.clauses[3].clause = "sector_alignment"

\* an explanation was generated from factors with all three clauses' causes
C23_Witness ==
    /\ last.op = "generate_ai_explanation"
    /\ Len(last.factors.common_interests) = 3
    /\ Len(last.factors.complementary_needs) = 2
    /\ last.factors.sector_alignment = Ratio(2, 3)
    /\ Len(last.result.clauses) = 3

(***************************************************************************)
(* _simulate_collaborative_filtering on the histories that                 *)
(* update_interaction_feedback builds.  Every user has a detailed profile  *)
(* with availability text, so that the scorer returns for every pair.      *)
(***************************************************************************)
Quiet ==
    [NoDetail EXCEPT !.company_size = Text(""), !.meeting_availability = Text("")]

CollabUsers == (1 :> RichA) @@ (2 :> RichB) @@ (3 :> Quiet)

CollabActors == {1, 2}

InitCollab ==
    /\ users = CollabUsers
    /\ interaction_history = <<>>
    /\ ai_recommendations = <<>>
    /\ now = 0
    /\ last = [op |-> "none"]
    /\ in_flight = <<>>

\* the call find_matches makes for a requester, on the other users
collaborative_filtering(user_id) ==
    /\ last' = [op |-> "simulate_collaborative_filtering", user_id |-> user_id,
                result |-> simulate_collaborative_filtering(interaction_history, user_id,
                               SortedIds(UserIds \ {user_id}))]
    /\ UNCHANGED <<users, interaction_history, ai_recommendations, now, in_flight>>

NextCollab ==
    \/ \E user_id \in CollabActors, target_user_id \in UserIds,
          success_indicator \in SuccessIndicators :
           update_interaction_feedback(user_id, target_user_id, "message", success_indicator)
    \/ \E user_id \in UserIds : collaborative_filtering(user_id)

SpecCollab == InitCollab /\ [][NextCollab]_vars

LastCollab == last.op = "simulate_collaborative_filtering"

\* the targets an actor has interacted with
TargetsOf(history, actor) ==
    {history[i].target_user_id : i \in {j \in DOMAIN history : history[j].user_id = actor}}

\* the history without the records of the other actors who share fewer than
\* two of the requester's successful targets
SharingTwo(history, user_id) ==
    LET keeps(row) ==
            \/ row.user_id = user_id
            \/ Cardinality(TargetsOf(history, row.user_id)
                           \cap SuccessfulTargets(history, user_id)) >= 2
    IN  SelectSeq(history, keeps)

\* C24: a record of another actor enters the requester's aggregates only if
\* that actor interacted with at least two of the requester's successful
\* targets; an actor sharing exactly one contributes to no candidate's boost.
C24_CohortSharesTwoTargets ==
    LastCollab
    => \A t \in DOMAIN last.result :
           last.result[t] = CollaborativeBoost(SharingTwo(interaction_history, last.user_id),
                                               last.user_id, t)

\* (avg_score / 100) * (1 + avg_success_rate) * ln(1 + count) on the group's
\* own averages, zero included
ScoreOnAggregates(history, user_id, target_id) ==
    LET rows == GroupRows(history, user_id, target_id)
        count == Cardinality(rows)
        scoreSum == SumOver([i \in DOMAIN history |-> history[i].compatibility_score], rows)
        successSum == SumOver([i \in DOMAIN history |-> history[i].success_indicator], rows)
    IN  MulDivLn(scoreSum * (count + successSum), LnMicro[1 + count], 100 * count * count)

\* C25: every candidate's boost is max(0.5, (avg_score / 100) *
\* (1 + avg_success_rate) * ln(1 + count)) on the cohort's aggregates for it,
\* also when the average success rate or the average score is 0; a candidate
\* with no cohort row gets 0.5.
C25_BoostOnActualAggregates ==
    LastCollab
    => \A t \in DOMAIN last.result :
           last.result[t] =
               IF HasGroup(interaction_history, last.user_id, t)
               THEN Max(DefaultBoost, ScoreOnAggregates(interaction_history, last.user_id, t))
               ELSE DefaultBoost

(***************************************************************************)
(* SpecTags: the scorer and _analyze_matching_factors on profiles whose     *)
(* tag lists repeat or reorder entries.                                    *)
(***************************************************************************)
TagProfiles ==
    {FullA, FullB,
     [FullA EXCEPT !.participation_objectives = JsonList(<<"IoT">>)],
     [FullA EXCEPT !.participation_objectives = JsonList(<<"IoT", "IoT">>)],
     [FullA EXCEPT !.looking_for = JsonList(<<"IoT", "Port">>)],
     [FullA EXCEPT !.looking_for = JsonList(<<"Port", "IoT">>)],
     [FullA EXCEPT !.looking_for = JsonList(<<"IoT", "IoT">>)],
     [FullB EXCEPT !.sectors_activity = JsonList(<<"digitalization">>)],
     [FullB EXCEPT !.sectors_activity = JsonList(<<"digitalization", "digitalization">>)],
     [FullB EXCEPT !.geographic_location = JsonList(<<"Paris", "Nice">>)],
     [FullB EXCEPT !.interest_themes = JsonList(<<"regulations", "digitalization", "digitalization">>)]}

TopicLists == {<<>>, <<"digitalization">>}

InitTags ==
    /\ users \in [ScoreIds -> TagProfiles]
    /\ interaction_history = <<>>
    /\ ai_recommendations = <<>>
    /\ now = 0
    /\ last = [op |-> "none"]
    /\ in_flight = <<>>

analyze(a, b, topics1, topics2) ==
    /\ last' = [op |-> "analyze_matching_factors", profile1 |-> a, profile2 |-> b,
                result |-> analyze_matching_factors(users[a], users[b], topics1, topics2)]
    /\ UNCHANGED <<users, interaction_history, ai_recommendations, now, in_flight>>

NextTags ==
    \E a \in ScoreIds, b \in ScoreIds :
        \/ score(a, b)
        \/ \E topics1 \in TopicLists, topics2 \in TopicLists : analyze(a, b, topics1, topics2)

SpecTags == InitTags /\ [][NextTags]_vars

\* the two rows hold the same set in every tag list, and the same texts
SameTags(row1, row2) ==
    /\ Range(row1.sectors_activity.v) = Range(row2.sectors_activity.v)
    /\ Range(row1.participation_objectives.v) = Range(row2.participation_objectives.v)
    /\ Range(row1.products_services.v) = Range(row2.products_services.v)
    /\ Range(row1.interest_themes.v) = Range(row2.interest_themes.v)
    /\ Range(row1.looking_for.v) = Range(row2.looking_for.v)
    /\ Range(row1.geographic_location.v) = Range(row2.geographic_location.v)
    /\ row1.company_size = row2.company_size
    /\ row1.meeting_availability = row2.meeting_availability

\* C26: the score, the sector-alignment ratio and the complementary needs of
\* a pair are those of every pair whose tag lists hold the same sets, with
\* entries repeated or in another order.
C26_TagListsAreSets ==
    \A row1 \in TagProfiles, row2 \in TagProfiles :
        (/\ last.op \in {"score", "analyze_matching_factors"}
         /\ SameTags(row1, users[last.profile1])
         /\ SameTags(row2, users[last.profile2]))
        => IF last.op = "score"
           THEN last.result = simulate_compatibility_model(row1, row2)
           ELSE LET factors == last.result.v
                    other == analyze_matching_factors(row1, row2, <<>>, <<>>).v
                IN  /\ factors.sector_alignment.num * other.sector_alignment.den
                           = other.sector_alignment.num * factors.sector_alignment.den
                    /\ Range(factors.complementary_needs) = Range(other.complementary_needs)
                    /\ Len(factors.complementary_needs) = Len(other.complementary_needs)

(***************************************************************************)
(* SpecWindow: a users table of four rows, so that a request of limit 1    *)
(* leaves a user outside its candidate window of two.                      *)
(***************************************************************************)
WindowIds == 1..(Cardinality(UserIds) + 1)

WindowRows == {RichA, Plain, Corrupt, Pending}

InitWindow ==
    /\ users \in [WindowIds -> WindowRows]
    /\ interaction_history = <<>>
    /\ ai_recommendations = <<>>
    /\ now = 0
    /\ last = [op |-> "none"]
    /\ in_flight = <<>>

WindowRequests ==
    [user_id : WindowIds, match_types : MatchTypes,
     min_compatibility : Thresholds, limit : 1..MaxLimit]

NextWindow == \E request \in WindowRequests : find_matches(request)

SpecWindow == InitWindow /\ [][NextWindow]_vars

\* the users a request may be answered with, and those of them that have
\* fewer than 2 * limit such users before them in id order
Eligible(request) ==
    {id \in DOMAIN users :
        /\ id # request.user_id
        /\ users[id].status = "validated"
        /\ \E type \in request.match_types : type = "all" \/ type = users[id].user_type}

InWindow(request) ==
    {id \in Eligible(request) :
        Cardinality({other \in Eligible(request) : other < id}) < 2 * request.limit}

C28_TextsFromBaseScore ==
    (/\ LastFind
     /\ LastClean
     /\ LastQualifying # {})
    => /\ last.outcome = "returned"
       /\ last.result # <<>>
       /\ \A i \in DOMAIN last.result :
              LET id == last.result[i].matched_user_id
                  base == LastScore(id).v
                  factors == last.result[i].matching_factors
              IN  /\ last.result[i].explanation.tone = Tone(base)
                  /\ last.result[i].business_potential
                         = assess_business_potential(base, factors)
                  /\ last.result[i].ai_recommendation = Recommendation(base, factors)
                  /\ last.result[i].compatibility_score
                         = AdjustedScore(base, CollaborativeBoost(interaction_history,
                                                   last.request.user_id, id))

\* the history with the requester's records replaced by one successful
\* record, of score 0, for each of the requester's successful targets
WithoutOwnRecords(history, user_id) ==
    LET others(row) == row.user_id # user_id
        targets == SortedIds(SuccessfulTargets(history, user_id))
    IN  SelectSeq(history, others)
        \o [i \in DOMAIN targets |-> InteractionRow(user_id, targets[i], "message", 0, 1)]

\* C29: the boost of every candidate is the boost on the history in which
\* only the set of the requester's successful targets is kept of the
\* requester's own records: their scores, number and success indicators do
\* not enter any average or count.
C29_OwnRecordsOnlySelect ==
    LastCollab
    => \A t \in DOMAIN last.result :
           /\ last.result[t] = CollaborativeBoost(
                  WithoutOwnRecords(interaction_history, last.user_id), last.user_id, t)
           /\ \A i \in GroupRows(interaction_history, last.user_id, t) :
                  interaction_history[i].user_id # last.user_id

\* the requester has a record on a candidate that the cohort's rows raise
\* above the default
C29_Witness ==
    /\ LastCollab
    /\ \E t \in DOMAIN last.result :
           /\ last.result[t] > DefaultBoost
           /\ \E i \in DOMAIN interaction_history :
                  /\ interaction_history[i].user_id = last.user_id
                  /\ interaction_history[i].target_user_id = t

(***************************************************************************)
(* SpecTopicsFair: random.choice draws each generic topic with the same    *)
(* probability at every turn of the loop, independently of the draws       *)
(* before; a run in which a topic not yet in the list is never drawn has   *)
(* probability 0.  The draw of such a topic is therefore weakly fair, as   *)
(* is the return that follows the loop.                                    *)
(***************************************************************************)
DrawFresh == DrawGenericTopic /\ last'.topics # last.topics

SpecTopicsFair ==
    InitFeedback /\ [][NextTopics]_vars /\ WF_vars(DrawFresh) /\ WF_vars(ReturnTopics)

\* C30: every call that enters the padding loop leaves it and returns, and a
\* step of the loop is taken only with fewer than 3 topics in the list, so
\* never when 3 or more specific topics exist.
C30_PaddingTerminates ==
    /\ (last.op = "suggest_conversation_topics" /\ last.pc = "while")
           ~> (last.op = "suggest_conversation_topics" /\ last.pc = "returned")
    /\ [][(last.op = "suggest_conversation_topics" /\ last'.topics # last.topics
           /\ last'.pc = "while" /\ last.pc = "while")
          => /\ Len(SpecificTopics(last.common_interests, last.complementary_needs)) < 3
             /\ Len(last.topics) < 3
             /\ Len(last'.topics) = Len(last.topics) + 1
             /\ Len(last'.topics) <= 3]_vars

\* a call without any specific topic has returned three generic ones
C30_Witness ==
    /\ last.op = "suggest_conversation_topics"
    /\ last.pc = "returned"
    /\ SpecificTopics(last.common_interests, last.complementary_needs) = <<>>
    /\ Len(last.result) = 3
    /\ Range(last.result) \subseteq Range(generic_topics)

====
